---------------------------- MODULE Spec2Model ----------------------------
(***************************************************************************)
(* label_drawer (src/src/main.rs): rendering of a text line or an image    *)
(* onto a fixed 2000x96 single-channel canvas, column-major bit packing,   *)
(* chunked upload of the packed bitmap and the print trigger.              *)
(*                                                                         *)
(* Four specifications share the variables below:                          *)
(*   SpecPack    get_bitmap_data applied to small canvases                 *)
(*   SpecText    create_image_with_text applied to glyph sample sequences  *)
(*   SpecUpload  write_image, one loop iteration (one POST) per step       *)
(*   Spec        the three UI callbacks registered in main                 *)
(***************************************************************************)
EXTENDS Integers, Sequences, FiniteSets, TLC

VARIABLES
    \* ---- get_bitmap_data (SpecPack)
    pk_img,          \* the canvas handed to get_bitmap_data
    pk_out,          \* [st |-> "none"] before the call, [st |-> "done", packed] after
    \* ---- create_image_with_text (SpecText)
    tx_in,           \* [samples, font_ok]: what rusttype delivers to the callback
    tx_out,          \* [st |-> "none"] | [st |-> "panic"] | [st |-> "ok", img, used_len]
    \* ---- write_image (SpecUpload)
    bytesvec,        \* the argument
    index,           \* the local `index`
    pos,             \* number of chunks the for loop has consumed
    posts,           \* the POST requests issued so far, in order
    up_pc,           \* "loop" | "ok" | "err"
    printed,         \* the number printed by the final println!, or -1
    failed_at,       \* chunk number whose POST failed, or -1
    device,          \* how the device answers the POST of each chunk
    \* ---- UI callbacks (Spec)
    print_width,     \* ui property print_width (i32)
    previewimage,    \* ui property previewimage: [kind |-> "default"] or an RGBA image
    image_path,      \* ui property image_path
    post_count,      \* POST /uploadjson requests sent to the device
    gets,            \* GET /print requests sent to the device (their length)
    crashed,         \* a callback panicked
    render_used,     \* UsedWidth of the latest completed render, -1 before any (history)
    nevents,         \* callbacks run so far
    last_ev          \* what the most recent callback did (history)

vars == <<pk_img, pk_out, tx_in, tx_out,
          bytesvec, index, pos, posts, up_pc, printed, failed_at, device,
          print_width, previewimage, image_path, post_count, gets, crashed,
          render_used, nevents, last_ev>>

packVars   == <<pk_img, pk_out>>
textVars   == <<tx_in, tx_out>>
uploadVars == <<bytesvec, index, pos, posts, up_pc, printed, failed_at, device>>
appVars    == <<print_width, previewimage, image_path, post_count, gets,
                crashed, render_used, nevents, last_ev>>

-----------------------------------------------------------------------------
(* Canvas: ImageBuffer<Luma<u8>, Vec<u8>>.  A canvas is [w, h, bg, px]: every *)
(* sample is bg except those in DOMAIN px.                                    *)

from_pixel(w, h, v) == [w |-> w, h |-> h, bg |-> v, px |-> <<>>]

get_pixel(img, x, y) ==
    IF <<x, y>> \in DOMAIN img.px THEN img.px[<<x, y>>] ELSE img.bg

put_pixel(img, x, y, v) ==
    [img EXCEPT !.px = [p \in (DOMAIN img.px) \cup {<<x, y>>} |->
                           IF p = <<x, y>> THEN v ELSE img.px[p]]]

Pow2(n) == IF n = 0 THEN 1 ELSE IF n = 1 THEN 2 ELSE IF n = 2 THEN 4
           ELSE IF n = 3 THEN 8 ELSE IF n = 4 THEN 16 ELSE IF n = 5 THEN 32
           ELSE IF n = 6 THEN 64 ELSE 128

\* current_byte |= bit << (7 - bit_pos), on u8
OrShift(current_byte, bit, sh) ==
    IF bit = 1 /\ (current_byte \div Pow2(sh)) % 2 = 0
    THEN (current_byte + Pow2(sh)) % 256
    ELSE current_byte

\* let bit = if val < 128 { 1 } else { 0 };
Threshold(val) == IF val < 128 THEN 1 ELSE 0

\* the body of the inner loop, for one (x, y); st = [packed, current_byte, bit_pos]
PackPixel(img, height, x, y, st) ==
    LET val == get_pixel(img, x, height - y - 1)
        cb  == OrShift(st.current_byte, Threshold(val), 7 - st.bit_pos)
        bp  == st.bit_pos + 1
    IN  IF bp = 8
        THEN [packed |-> Append(st.packed, cb), current_byte |-> 0, bit_pos |-> 0]
        ELSE [packed |-> st.packed, current_byte |-> cb, bit_pos |-> bp]

RECURSIVE PackColumn(_, _, _, _, _)
\* for y in 0..height
PackColumn(img, height, x, y, st) ==
    IF y >= height THEN st
    ELSE PackColumn(img, height, x, y + 1, PackPixel(img, height, x, y, st))

RECURSIVE PackImage(_, _, _, _, _)
\* for x in 0..width
PackImage(img, height, width, x, st) ==
    IF x >= width THEN st
    ELSE PackImage(img, height, width, x + 1, PackColumn(img, height, x, 0, st))

\* the returned vector: what was pushed; current_byte is dropped at the end
get_bitmap_data(img, height, width) ==
    PackImage(img, height, width, 0,
              [packed |-> <<>>, current_byte |-> 0, bit_pos |-> 0]).packed

-----------------------------------------------------------------------------
(* SpecPack: canvases of up to MaxW x MaxH with up to MaxInk non-white       *)
(* samples, their intensities on both sides of the cutover.                  *)

MaxW == 3
MaxH == 3
MaxInk == 2
Intensities == {0, 127, 128}

PackCanvases ==
    UNION { UNION { { [w |-> w, h |-> h, bg |-> 255, px |-> f] :
                        f \in UNION { [S -> Intensities] :
                                 S \in { T \in SUBSET ((0 .. w - 1) \X (0 .. h - 1)) :
                                           Cardinality(T) <= MaxInk } } } :
                    h \in 1 .. MaxH } : w \in 1 .. MaxW }

PackIdle == pk_img = "none" /\ pk_out = [st |-> "none"]
TextIdle == tx_in = "none" /\ tx_out = [st |-> "none"]
UploadIdle ==
    /\ bytesvec = <<>> /\ index = 0 /\ pos = 0 /\ posts = <<>>
    /\ up_pc = "idle" /\ printed = -1 /\ failed_at = -1
    /\ device = [kind |-> "accepts"]
AppIdle ==
    /\ print_width = 0 /\ previewimage = [kind |-> "default"] /\ image_path = ""
    /\ post_count = 0 /\ gets = <<>> /\ crashed = FALSE /\ nevents = 0
    /\ render_used = -1
    /\ last_ev = [op |-> "none"]

InitPack ==
    /\ pk_img \in PackCanvases
    /\ pk_out = [st |-> "none"]
    /\ TextIdle /\ UploadIdle /\ AppIdle

Pack ==
    /\ pk_out.st = "none"
    /\ pk_out' = [st |-> "done",
                  packed |-> get_bitmap_data(pk_img, pk_img.h, pk_img.w)]
    /\ UNCHANGED <<pk_img, textVars, uploadVars, appVars>>

NextPack == Pack

SpecPack == InitPack /\ [][NextPack]_vars

\* ---- what get_bitmap_data returns, as the device reads it

\* bit k of a byte stream, MSB first within each byte (k counted from 0)
StreamBit(stream, k) == (stream[(k \div 8) + 1] \div Pow2(7 - (k % 8))) % 2

\* the binarized canvas sample that the contract assigns to bit k
GridBit(img, k) ==
    IF get_pixel(img, k \div img.h, img.h - 1 - (k % img.h)) < 128 THEN 1 ELSE 0

CeilDiv(a, b) == (a + b - 1) \div b

\* The number of bytes the loop pushes: one per eight samples visited.
PackedLen(width, height) == (width * height) \div 8

\* Facts of the code as it is (not claims of the specification): every bit that
\* is in the stream is the binarized sample of its column and row, and the
\* stream holds only the full bytes.
PackPresentBitsExact ==
    pk_out.st = "done" =>
        /\ Len(pk_out.packed) = PackedLen(pk_img.w, pk_img.h)
        /\ \A k \in 0 .. 8 * Len(pk_out.packed) - 1 :
               StreamBit(pk_out.packed, k) = GridBit(pk_img, k)

\* C1: for every canvas of size W x H, bit k of the stream returned by
\* get_bitmap_data (MSB first, bytes in order) is 1 exactly when the sample at
\* column k div H, row H-1-(k mod H) is below 128, for every k in 0 .. W*H-1, so
\* that unpacking the stream gives back the whole binarized grid.
C1_RoundTrip ==
    pk_out.st = "done" =>
        \A k \in 0 .. pk_img.w * pk_img.h - 1 :
            /\ k \div 8 < Len(pk_out.packed)
            /\ StreamBit(pk_out.packed, k) = GridBit(pk_img, k)

\* C2: the returned byte sequence has length ceil(W*H/8); when W*H is not a
\* multiple of 8 the final byte holds the last W*H mod 8 samples in its
\* high-order bits and zeros in its low-order padding bits.
C2_LengthAndPadding ==
    pk_out.st = "done" =>
        LET n == pk_img.w * pk_img.h
        IN  /\ Len(pk_out.packed) = CeilDiv(n, 8)
            /\ n % 8 # 0 =>
                 /\ \A k \in 8 * (n \div 8) .. n - 1 :
                        StreamBit(pk_out.packed, k) = GridBit(pk_img, k)
                 /\ \A k \in n .. 8 * CeilDiv(n, 8) - 1 : StreamBit(pk_out.packed, k) = 0

-----------------------------------------------------------------------------
(* create_image_with_text.  rusttype's layout and draw are the glyph source: *)
(* what reaches the closure is a sequence of samples (px, py, v), px and py  *)
(* already offset by the glyph's bounding box, v the coverage in percent.    *)

CanvasWidth == 2000
CanvasHeight == 96

\* if v > 0.5
CoverageHitInclusive(v) == v >= 50
CoverageHit(v) == v > 50

\* if px >= 0 && px < width as i32 && py >= 0 && py < height as i32
InCanvas(width, height, px, py) ==
    px >= 0 /\ px < width /\ py >= 0 /\ py < height

\* the closure passed to glyph.draw; st = [img, used_len]
DrawSample(width, height, st, s) ==
    IF InCanvas(width, height, s.px, s.py) /\ CoverageHit(s.v)
    THEN [img |-> put_pixel(st.img, s.px, s.py, 0),
          used_len |-> IF s.px > st.used_len THEN s.px ELSE st.used_len]
    ELSE st

RECURSIVE DrawAll(_, _, _, _, _)
\* for glyph in font.layout(..) { glyph.draw(..) }
DrawAll(width, height, st, samples, i) ==
    IF i > Len(samples) THEN st
    ELSE DrawAll(width, height, DrawSample(width, height, st, samples[i]),
                 samples, i + 1)

\* [st |-> "panic"] when the font file cannot be read or parsed (expect / unwrap)
create_image_with_text(width, height, samples, font_ok) ==
    IF ~font_ok THEN [st |-> "panic"]
    ELSE LET st == DrawAll(width, height,
                           [img |-> from_pixel(width, height, 255), used_len |-> 0],
                           samples, 1)
         IN  [st |-> "ok", img |-> st.img, used_len |-> st.used_len + 1]

MaxSamples == 2
SampleXs == {-1, 0, 7, 1999, 2000}
SampleYs == {-1, 0, 95, 96}
Coverages == {50, 51}
Samples == [px : SampleXs, py : SampleYs, v : Coverages]
SampleSeqs == UNION { [1 .. n -> Samples] : n \in 0 .. MaxSamples }

InitText ==
    /\ tx_in \in [samples : SampleSeqs, font_ok : BOOLEAN]
    /\ tx_out = [st |-> "none"]
    /\ PackIdle /\ UploadIdle /\ AppIdle

RenderText ==
    /\ tx_out.st = "none"
    /\ tx_out' = create_image_with_text(CanvasWidth, CanvasHeight,
                                        tx_in.samples, tx_in.font_ok)
    /\ UNCHANGED <<tx_in, packVars, uploadVars, appVars>>

NextText == RenderText

SpecText == InitText /\ [][NextText]_vars

\* the foreground pixels the contract asks for: samples over 0.5 inside the canvas
WantedInk(samples) ==
    { <<samples[i].px, samples[i].py>> : i \in
        { j \in 1 .. Len(samples) :
            /\ samples[j].v > 50
            /\ samples[j].px \in 0 .. CanvasWidth - 1
            /\ samples[j].py \in 0 .. CanvasHeight - 1 } }

SetMax(S) == CHOOSE m \in S : \A n \in S : n <= m

\* the canvas samples that are not background white
InkOf(img) == { p \in DOMAIN img.px : img.px[p] # img.bg }

\* C10: in text mode a canvas pixel is foreground (0) only for samples with
\* coverage over 0.5 inside the canvas, every other pixel stays white, and
\* UsedWidth is the largest foreground column plus one, or 1 without any.
C10_TextInkAndUsedWidth ==
    tx_out.st = "ok" =>
        LET ink == WantedInk(tx_in.samples)
        IN  /\ InkOf(tx_out.img) = ink
            /\ \A p \in DOMAIN tx_out.img.px : tx_out.img.px[p] = 0
            /\ tx_out.img.bg = 255
            /\ tx_out.img.w = CanvasWidth /\ tx_out.img.h = CanvasHeight
            /\ tx_out.used_len =
                 IF ink = {} THEN 1 ELSE SetMax({ p[1] : p \in ink }) + 1

\* a render that clipped a covered sample outside the canvas, skipped one at
\* exactly 0.5 or drew nothing in column 0, and drew ink right of column 0
C10_Witness ==
    /\ tx_out.st = "ok"
    /\ \E i \in 1 .. Len(tx_in.samples) :
          /\ tx_in.samples[i].v > 50
          /\ ~InCanvas(CanvasWidth, CanvasHeight,
                       tx_in.samples[i].px, tx_in.samples[i].py)
    /\ InkOf(tx_out.img) # {}
    /\ tx_out.used_len = CanvasWidth

-----------------------------------------------------------------------------
(* write_image: the packed bitmap goes out in chunks, one POST per chunk.    *)

CHUNK_SIZE == 96

Min(a, b) == IF a <= b THEN a ELSE b

\* bytesvec.chunks(CHUNK_SIZE) yields this many slices
NumChunksTrailing(len) == (len \div CHUNK_SIZE) + 1
NumChunks(len) == (len + CHUNK_SIZE - 1) \div CHUNK_SIZE

\* the n-th slice (n from 0) that bytesvec.chunks(CHUNK_SIZE) yields
NthChunk(bytes, n) ==
    SubSeq(bytes, n * CHUNK_SIZE + 1, Min((n + 1) * CHUNK_SIZE, Len(bytes)))

\* general_purpose::STANDARD: the alphabet, '=' padding
B64Alphabet ==
    << "A", "B", "C", "D", "E", "F", "G", "H", "I", "J", "K", "L", "M",
       "N", "O", "P", "Q", "R", "S", "T", "U", "V", "W", "X", "Y", "Z",
       "a", "b", "c", "d", "e", "f", "g", "h", "i", "j", "k", "l", "m",
       "n", "o", "p", "q", "r", "s", "t", "u", "v", "w", "x", "y", "z",
       "0", "1", "2", "3", "4", "5", "6", "7", "8", "9", "+", "/" >>

B64Char(sextet) == B64Alphabet[sextet + 1]

RECURSIVE B64Encode(_)
\* general_purpose::STANDARD.encode(chunk): a sequence of characters
B64Encode(bytes) ==
    IF Len(bytes) = 0 THEN <<>>
    ELSE IF Len(bytes) = 1 THEN
        << B64Char(bytes[1] \div 4), B64Char((bytes[1] % 4) * 16), "=", "=" >>
    ELSE IF Len(bytes) = 2 THEN
        << B64Char(bytes[1] \div 4),
           B64Char((bytes[1] % 4) * 16 + bytes[2] \div 16),
           B64Char((bytes[2] % 16) * 4), "=" >>
    ELSE
        << B64Char(bytes[1] \div 4),
           B64Char((bytes[1] % 4) * 16 + bytes[2] \div 16),
           B64Char((bytes[2] % 16) * 4 + bytes[3] \div 64),
           B64Char(bytes[3] % 64) >>
        \o B64Encode(SubSeq(bytes, 4, Len(bytes)))

\* json!({"index": index, "data": b64})
PostBody(idx, chunk) == [index |-> idx, data |-> B64Encode(chunk)]

\* What the loop does with the outcome of send(): `?` returns on a transport
\* error, the status check returns on a non-success status.
AfterSendIgnoringStatus(resp) == IF resp = "transport_error" THEN "return_err" ELSE "continue"
AfterSend(resp) == IF resp = "success" THEN "continue" ELSE "return_err"

\* index += CHUNK_SIZE
NextIndexCountingChunks(idx) == idx + 1
NextIndex(idx) == idx + CHUNK_SIZE

\* The device: it accepts every chunk, or answers the POST of chunk `at` with a
\* non-success status ("rejects") or not at all ("unreachable").
DeviceResponse(dev, n) ==
    IF dev.kind = "accepts" \/ n # dev.at THEN "success"
    ELSE IF dev.kind = "rejects" THEN "http_error" ELSE "transport_error"

MaxFailAt == 2
Devices ==
    {[kind |-> "accepts"]} \cup [kind : {"rejects", "unreachable"}, at : 0 .. MaxFailAt]

MaxLen == 200
Seeds == {1, 37}
PatternBytes(len, seed) == [i \in 1 .. len |-> (i * seed + 11) % 256]

InitUpload ==
    /\ \E len \in 0 .. MaxLen, seed \in Seeds : bytesvec = PatternBytes(len, seed)
    /\ index = 0 /\ pos = 0 /\ posts = <<>>
    /\ up_pc = "loop" /\ printed = -1 /\ failed_at = -1
    /\ device \in Devices
    /\ PackIdle /\ TextIdle /\ AppIdle

\* one iteration of `for chunk in bytesvec.chunks(CHUNK_SIZE)`
PostChunk ==
    /\ up_pc = "loop"
    /\ pos < NumChunks(Len(bytesvec))
    /\ LET resp == DeviceResponse(device, pos) IN
         /\ posts' = Append(posts, PostBody(index, NthChunk(bytesvec, pos)))
         /\ failed_at' = IF resp = "success" \/ failed_at # -1 THEN failed_at ELSE pos
         /\ IF AfterSend(resp) = "continue"
            THEN /\ index' = NextIndex(index)
                 /\ pos' = pos + 1
                 /\ up_pc' = "loop"
            ELSE /\ up_pc' = "err"
                 /\ UNCHANGED <<index, pos>>
    /\ UNCHANGED <<bytesvec, printed, device, packVars, textVars, appVars>>

\* the loop is exhausted: println!("UploadJson successfully in {} blocks!", index); Ok(())
FinishUpload ==
    /\ up_pc = "loop"
    /\ pos >= NumChunks(Len(bytesvec))
    /\ printed' = index
    /\ up_pc' = "ok"
    /\ UNCHANGED <<bytesvec, index, pos, posts, failed_at, device,
                   packVars, textVars, appVars>>

NextUpload == PostChunk \/ FinishUpload

SpecUpload == InitUpload /\ [][NextUpload]_vars

\* ---- the device's reading of the requests

B64Value(c) == IF c = "=" THEN 0 ELSE (CHOOSE i \in 1 .. 64 : B64Alphabet[i] = c) - 1

RECURSIVE B64Decode(_)
\* standard base64 decoding of a padded character sequence
B64Decode(chars) ==
    IF Len(chars) = 0 THEN <<>>
    ELSE LET a == B64Value(chars[1])
             b == B64Value(chars[2])
             c == B64Value(chars[3])
             d == B64Value(chars[4])
             b1 == a * 4 + b \div 16
             b2 == (b % 16) * 16 + c \div 4
             b3 == (c % 4) * 64 + d
             grp == IF chars[3] = "=" THEN << b1 >>
                    ELSE IF chars[4] = "=" THEN << b1, b2 >>
                    ELSE << b1, b2, b3 >>
         IN  grp \o B64Decode(SubSeq(chars, 5, Len(chars)))

Payload(i) == B64Decode(posts[i].data)

RECURSIVE Concat(_, _)
\* the first n sequences of seqs, concatenated
Concat(seqs, n) == IF n = 0 THEN <<>> ELSE Concat(seqs, n - 1) \o seqs[n]

\* C3: the POSTs go out in strictly increasing "index" order, each "index" is
\* the byte offset of its chunk (the total length of the chunks sent before
\* it, from 0), the payloads concatenated are the bitmap's bytes from offset 0
\* on, and when every POST succeeded they are the whole bitmap.
C3_ContiguousPartition ==
    up_pc \in {"loop", "ok", "err"} =>
        LET pay == [i \in 1 .. Len(posts) |-> Payload(i)]
            all == Concat(pay, Len(posts))
        IN  /\ \A i \in 1 .. Len(posts) :
                  /\ posts[i].index = Len(Concat(pay, i - 1))
                  /\ i > 1 => posts[i].index > posts[i - 1].index
            /\ Len(all) <= Len(bytesvec)
            /\ all = SubSeq(bytesvec, 1, Len(all))
            /\ up_pc = "ok" => all = bytesvec

\* a three-chunk upload with a short last chunk went through
C3_Witness ==
    /\ up_pc = "ok"
    /\ Len(posts) = 3
    /\ Len(bytesvec) % CHUNK_SIZE # 0

\* C4: when the POST of chunk i fails (status or transport), i+1 POSTs have
\* been made in all, none for a later chunk, chunk i is posted once, and
\* write_image returns an error.
C4_AbortOnFirstFailure ==
    failed_at # -1 =>
        /\ up_pc = "err"
        /\ Len(posts) = failed_at + 1
        /\ \A i \in 1 .. Len(posts) : \A j \in 1 .. Len(posts) :
              posts[i].index = posts[j].index => i = j
        /\ posts[Len(posts)].index = failed_at * CHUNK_SIZE

\* chunk 1 of three was refused
C4_Witness ==
    /\ failed_at = 1
    /\ up_pc = "err"
    /\ Len(bytesvec) > 2 * CHUNK_SIZE

\* C7: when every chunk was accepted, the total write_image reports is the
\* number of bytes transmitted, the length of the bitmap.
C7_ReportedTotal ==
    up_pc = "ok" => printed = Len(bytesvec)

\* C8: no chunk is empty or longer than 96 bytes, and every chunk that does not
\* end the bitmap carries exactly 96 bytes.
C8_ChunkSizes ==
    \A i \in 1 .. Len(posts) :
        LET n == Len(Payload(i))
        IN  /\ 1 <= n /\ n <= CHUNK_SIZE
            /\ (i < Len(posts) \/ posts[i].index + n < Len(bytesvec)) => n = CHUNK_SIZE

\* a bitmap of exactly two full chunks went through
C8_Witness ==
    /\ up_pc = "ok"
    /\ Len(bytesvec) = 2 * CHUNK_SIZE
    /\ Len(posts) = 2

\* write_image as a whole, for a bitmap of len bytes: the POSTs it issues and
\* whether it returns Ok
PostsSent(len, dev) ==
    IF dev.kind = "accepts" \/ dev.at >= NumChunks(len)
    THEN NumChunks(len) ELSE dev.at + 1

UploadOk(len, dev) == dev.kind = "accepts" \/ dev.at >= NumChunks(len)

\* The whole-call summary agrees with the loop, step by step.
UploadSummaryAgrees ==
    up_pc \in {"ok", "err"} =>
        /\ Len(posts) = PostsSent(Len(bytesvec), device)
        /\ (up_pc = "ok") = UploadOk(Len(bytesvec), device)

-----------------------------------------------------------------------------
(* The UI callbacks of main: request_create_label, request_print_label and   *)
(* load_image.  Each runs to completion on the UI thread.                    *)

I32Max == 2147483647

\* `as i32` of a usize or u32, `as u32` of an i32: the value modulo 2^32, read
\* in the target's range
ToI32(n) == IF n > I32Max THEN ((n - I32Max) - 1) - I32Max - 1 ELSE n
ToU32(n) == IF n < 0 THEN ((n + I32Max) + 1) + I32Max + 1 ELSE n

\* get_slint_img: every sample v becomes the RGBA pixel (v, v, v, 255)
Rgba(v) == << v, v, v, 255 >>
get_slint_img(img, height, width) ==
    [w |-> width, h |-> height, bg |-> Rgba(img.bg),
     px |-> [p \in DOMAIN img.px |-> Rgba(img.px[p])]]

\* print_image(length as u32): the length of the one GET /print request
PrintLengthFullCanvas(length) == CanvasWidth
PrintLength(length) == ToU32(length)

\* ---- the files the image path may name
ImagePaths == {"label.png", "wide.png", "thin.png", "broken.png"}
NoPick == "ups"

\* Path::new(&image_path).exists()
PathExists(path) == path \in ImagePaths

\* image::open(&image_path): the decoded dimensions, or an error
OpenImage(path) ==
    IF path = "label.png" THEN [ok |-> TRUE, w |-> 400, h |-> 200]
    ELSE IF path = "wide.png" THEN [ok |-> TRUE, w |-> 3000, h |-> 96]
    ELSE IF path = "thin.png" THEN [ok |-> TRUE, w |-> 1, h |-> 1000]
    ELSE [ok |-> FALSE]

\* (orig_w as f32 * (target_height as f32 / orig_h as f32)).round() as u32:
\* rounding to nearest, halves upward; exact for the dimensions of OpenImage
ScaledWidth(orig_w, orig_h, target_height) ==
    (2 * orig_w * target_height + orig_h) \div (2 * orig_h)

\* resize_exact + dither(BiLevel): a two-valued new_w x 96 image; which samples
\* are black is the library's choice
DitheredInks(new_w, height) ==
    { S \in { {}, {<<0, 0>>}, {<<new_w - 1, height - 1>>} } :
        \A p \in S : p[1] >= 0 /\ p[1] < new_w }

\* imageops::replace(&mut final_img, &dithered, 0, 0) on a white canvas: the
\* part of the dithered image that overlaps the canvas is copied
ReplaceOnto(canvas, ink) ==
    [canvas EXCEPT !.px = [p \in { q \in ink : q[1] < canvas.w /\ q[2] < canvas.h } |-> 0]]

MaxEvents == 3

AppSampleSeqs ==
    { <<>>,
      << [px |-> 0, py |-> 0, v |-> 51] >>,
      << [px |-> 7, py |-> 95, v |-> 100], [px |-> 2000, py |-> 3, v |-> 100] >>,
      << [px |-> 1999, py |-> 40, v |-> 51], [px |-> 12, py |-> 40, v |-> 50] >> }

AppDevices ==
    { [kind |-> "accepts"], [kind |-> "rejects", at |-> 0],
      [kind |-> "unreachable", at |-> 1] }

\* print_width, previewimage and image_path are properties of the window; the
\* window's declaration fixes their initial values.
InitPrintWidths == {0, CanvasWidth}

Init ==
    /\ print_width \in InitPrintWidths
    /\ previewimage = [kind |-> "default"]
    /\ image_path = ""
    /\ post_count = 0 /\ gets = <<>> /\ crashed = FALSE
    /\ render_used = -1 /\ nevents = 0
    /\ last_ev = [op |-> "none"]
    /\ PackIdle /\ TextIdle /\ UploadIdle

Event(op, fail, used) ==
    [op |-> op, fail |-> fail, used |-> used, preview_before |-> previewimage,
     posts_before |-> post_count, gets_before |-> Len(gets)]

UploadFailure(len, dev) == IF UploadOk(len, dev) THEN "none" ELSE dev.kind

\* on_request_create_label
CreateLabel ==
    /\ ~crashed /\ nevents < MaxEvents
    /\ \E samples \in AppSampleSeqs, font_ok \in BOOLEAN, dev \in AppDevices :
         LET r   == create_image_with_text(CanvasWidth, CanvasHeight, samples, font_ok)
             len == PackedLen(CanvasWidth, CanvasHeight)
         IN  IF r.st = "panic"
             THEN /\ crashed' = TRUE
                  /\ last_ev' = Event("create", "font", -1)
                  /\ UNCHANGED <<print_width, previewimage, post_count, render_used>>
             ELSE /\ post_count' = post_count + PostsSent(len, dev)
                  /\ print_width' = ToI32(r.used_len)
                  /\ previewimage' = get_slint_img(r.img, CanvasHeight, CanvasWidth)
                  /\ render_used' = r.used_len
                  /\ last_ev' = Event("create", UploadFailure(len, dev), r.used_len)
                  /\ UNCHANGED crashed
    /\ nevents' = nevents + 1
    /\ UNCHANGED <<image_path, gets, packVars, textVars, uploadVars>>

\* on_request_print_label
PrintLabel ==
    /\ ~crashed /\ nevents < MaxEvents
    /\ gets' = Append(gets, PrintLength(print_width))
    /\ last_ev' = Event("print", "none", -1)
    /\ nevents' = nevents + 1
    /\ UNCHANGED <<print_width, previewimage, image_path, post_count, crashed,
                   render_used, packVars, textVars, uploadVars>>

\* on_load_image
LoadImage ==
    /\ ~crashed /\ nevents < MaxEvents
    /\ \E pick \in ImagePaths \cup {NoPick}, dev \in AppDevices, zero_panics \in BOOLEAN :
         LET ask  == image_path = "" \/ ~PathExists(image_path)
             path == IF ask THEN pick ELSE image_path
             img  == OpenImage(path)
             len  == PackedLen(CanvasWidth, CanvasHeight)
         IN  IF ~PathExists(path)
             THEN /\ image_path' = ""
                  /\ last_ev' = Event("load", "access", -1)
                  /\ UNCHANGED <<print_width, previewimage, post_count, render_used, crashed>>
             ELSE IF ~img.ok
             THEN /\ image_path' = path
                  /\ last_ev' = Event("load", "decode", -1)
                  /\ UNCHANGED <<print_width, previewimage, post_count, render_used, crashed>>
             ELSE LET new_w == ScaledWidth(img.w, img.h, CanvasHeight)
                  IN  IF new_w = 0 /\ zero_panics
                      THEN /\ crashed' = TRUE
                           /\ image_path' = path
                           /\ last_ev' = Event("load", "resize", -1)
                           /\ UNCHANGED <<print_width, previewimage, post_count,
                                          render_used>>
                      ELSE \E ink \in DitheredInks(new_w, CanvasHeight) :
                           LET final_img ==
                                 ReplaceOnto(from_pixel(CanvasWidth, CanvasHeight, 255), ink)
                           IN  /\ post_count' = post_count + PostsSent(len, dev)
                               /\ print_width' = ToI32(new_w)
                               /\ previewimage' =
                                    get_slint_img(final_img, CanvasHeight, CanvasWidth)
                               /\ image_path' = path
                               /\ render_used' = new_w
                               /\ last_ev' = Event("load", UploadFailure(len, dev), new_w)
                               /\ UNCHANGED crashed
    /\ nevents' = nevents + 1
    /\ UNCHANGED <<gets, packVars, textVars, uploadVars>>

Next == CreateLabel \/ PrintLabel \/ LoadImage

Spec == Init /\ [][Next]_vars

\* C5: after any text or image render the stored print width (UsedWidth) is
\* at least 1 and at most the canvas width.
C5_UsedWidthInRange ==
    (last_ev.op \in {"create", "load"} /\ last_ev.used # -1) =>
        /\ print_width = last_ev.used
        /\ 1 <= print_width /\ print_width <= CanvasWidth

\* C6: when a create-label or load-image operation met a failure, the preview
\* is what it was before the operation.
C6_PreviewKeptOnFailure ==
    (last_ev.op \in {"create", "load"} /\ last_ev.fail # "none") =>
        previewimage = last_ev.preview_before

\* C9: a print event issues exactly one GET /print and no POST, and the length
\* it carries is the UsedWidth of the latest render completed before it.
C9_PrintSendsLatestUsedWidth ==
    last_ev.op = "print" =>
        /\ Len(gets) = last_ev.gets_before + 1
        /\ post_count = last_ev.posts_before
        /\ render_used # -1 => gets[Len(gets)] = render_used

\* the third callback is a print, the second rendered the 400x200 image
\* (new_w = 192)
C9_Witness ==
    /\ last_ev.op = "print"
    /\ nevents = 3
    /\ render_used = 192
    /\ gets = << 192 >>

=============================================================================
